---- MODULE Spec2Model ----
(***************************************************************************)
(* IsolatedFilePathData (core/src/location/file_path_helper/               *)
(* isolated_file_path_data.rs): the key of a file or directory inside a    *)
(* location, its constructors, parent(), the conversions from stored       *)
(* records, the derived equality, and accept_file_name with its           *)
(* once-initialised pattern set (specification SpecOnce).                  *)
(*                                                                         *)
(* Text is a sequence of one-character strings, so that slicing, rfind,    *)
(* replace and to_lowercase are computed as the code computes them.        *)
(* Indices are the 0-based indices of the Rust code.  A filesystem path    *)
(* (std::path::Path) is the sequence of its normal components; the model   *)
(* is of the build for a platform whose MAIN_SEPARATOR is '/', where a     *)
(* backslash is an ordinary character of a component.                      *)
(***************************************************************************)
EXTENDS Integers, Sequences, FiniteSets, TLC

VARIABLES
    call,      \* the last constructor or function called, with its inputs
    result,    \* what it returned: ok (a key, a pair, a text), err or panic
    steps,     \* how many times parent() was applied to the constructed key
    receiver,  \* the key parent() was last called on
    derived,   \* a second key derived from the current one, and their ==
    lock,      \* FORBIDDEN_FILE_NAMES: the OnceLock's state and its value
    threads    \* each thread's place in accept_file_name and what it holds

keyVars == <<call, result, steps, receiver, derived>>
onceVars == <<lock, threads>>
vars == <<call, result, steps, receiver, derived, lock, threads>>

(* ------------------------------ bounds --------------------------------- *)

\* Components of a path below the deeper location root.
MaxDepth == 2

\* Applications of parent() to one constructed key.
MaxParents == 4

\* Threads that call accept_file_name, and the calls each one makes.
NThreads == 2
MaxCalls == 1

(* ------------------------------ inputs --------------------------------- *)

LocationIds == {1, 2}

\* Component names: plain, lower-case extension, upper-case extension,
\* hidden (leading dot), trailing dot, two dots, and one holding a backslash.
FileNames ==
    { <<"a">>,
      <<"a", ".", "b">>,
      <<"A", ".", "B">>,
      <<".", "a">>,
      <<"a", ".">>,
      <<"a", ".", "b", ".", "B">>,
      <<"a", "\\", "b">> }

Paths(n) == UNION { [1..k -> FileNames] : k \in 0..n }

\* Location roots: /s and /s/l.
Roots == { << <<"s">> >>, << <<"s">>, <<"l">> >> }

\* Absolute paths handed to new(): everything below /s/l, hence also paths
\* below /s that are not below /s/l.
AbsPaths ==
    { << <<"s">>, <<"l">> >> \o p : p \in Paths(MaxDepth) }
        \cup { << <<"s">> >> \o p : p \in Paths(1) }
        \cup { << <<"s">>, <<"l", "a">> >> }

(* ------------------------------- text ---------------------------------- *)

Upper == {"A", "B"}

to_lowercase_char(c) ==
    CASE c = "A" -> "a"
      [] c = "B" -> "b"
      [] OTHER -> c

\* str::to_lowercase
to_lowercase(s) == [i \in 1..Len(s) |-> to_lowercase_char(s[i])]

\* str::replace(from, to) for one-character patterns
replace(s, from, to) == [i \in 1..Len(s) |-> IF s[i] = from THEN to ELSE s[i]]

Max(S) == CHOOSE x \in S : \A y \in S : y <= x

\* str::rfind(c): the 0-based index of the last c, -1 for None
rfind(s, c) ==
    LET I == {i \in 1..Len(s) : s[i] = c}
    IN IF I = {} THEN -1 ELSE Max(I) - 1

\* s[a..b] with 0-based, half-open Rust indices; it panics unless SliceOk
SliceOk(s, a, b) == 0 <= a /\ a <= b /\ b <= Len(s)
Slice(s, a, b) == SubSeq(s, a + 1, b)

ends_with(s, c) == Len(s) > 0 /\ s[Len(s)] = c

RECURSIVE Join(_, _)
\* Components joined by a separator: Path::to_str of a relative path
Join(segs, sep) ==
    IF Len(segs) = 0 THEN << >>
    ELSE IF Len(segs) = 1 THEN segs[1]
    ELSE segs[1] \o <<sep>> \o Join(Tail(segs), sep)

(* --------------------------- std::path::Path --------------------------- *)

None == [some |-> FALSE, v |-> << >>]
Some(x) == [some |-> TRUE, v |-> x]
unwrap_or_default(o) == IF o.some THEN o.v ELSE << >>

\* Path::file_name: the last normal component
file_name(p) == IF Len(p) = 0 THEN None ELSE Some(p[Len(p)])

\* std's rsplit_file_at_dot: (before.or(after), before.and(after)), the whole
\* name and no extension when the only dot is the first character
rsplit_file_at_dot(f) ==
    LET dot == rfind(f, ".")
    IN IF f = <<".", ".">> THEN [stem |-> Some(f), ext |-> None]
       ELSE IF dot = -1 THEN [stem |-> Some(f), ext |-> None]
       ELSE IF dot = 0 THEN [stem |-> Some(f), ext |-> None]
       ELSE [stem |-> Some(Slice(f, 0, dot)),
             ext  |-> Some(Slice(f, dot + 1, Len(f)))]

\* Path::file_stem
file_stem(p) ==
    IF file_name(p).some THEN rsplit_file_at_dot(file_name(p).v).stem ELSE None

\* Path::extension
path_extension(p) ==
    IF file_name(p).some THEN rsplit_file_at_dot(file_name(p).v).ext ELSE None

IsPrefix(base, p) == Len(base) <= Len(p) /\ SubSeq(p, 1, Len(base)) = base

\* strip_prefix with a bug: the prefix is tested on the text of the paths
strip_prefix_textual(p, base) ==
    LET text == Join(p, "/")
        base_text == Join(base, "/")
    IN IF Len(base) <= Len(p) /\ Len(base_text) <= Len(text)
          /\ SubSeq(text, 1, Len(base_text)) = base_text
       THEN Some(SubSeq(p, Len(base) + 1, Len(p)))
       ELSE None

\* Path::strip_prefix, component-wise: the remainder, or None for Err
strip_prefix(p, base) ==
    IF IsPrefix(base, p) THEN Some(SubSeq(p, Len(base) + 1, Len(p))) ELSE None

\* Path::parent of a relative path: None for the empty path
path_parent(p) == IF Len(p) = 0 THEN None ELSE Some(SubSeq(p, 1, Len(p) - 1))

(* ------------------------------ results -------------------------------- *)

Ok(k) == [status |-> "ok", key |-> k]
OkText(t) == [status |-> "ok", text |-> t]
Panic == [status |-> "panic"]
UnableToExtractMaterializedPath(location_id, path) ==
    [status |-> "err",
     error |-> [kind |-> "UnableToExtractMaterializedPath",
                location_id |-> location_id, path |-> path]]

(* ----------------------- path normalisation ----------------------------- *)

\* extract_relative_path: the remainder below the location root, every
\* backslash replaced by '/'
extract_relative_path(location_id, location_path, path) ==
    LET relative == strip_prefix(path, location_path)
    IN IF ~relative.some
       THEN UnableToExtractMaterializedPath(location_id, path)
       ELSE OkText(replace(Join(relative.v, "/"), "\\", "/"))

\* extract_normalized_materialized_path_str with a bug: the backslashes stay
extract_normalized_materialized_path_str_keeps_backslash(location_id, location_path, path) ==
    LET relative == strip_prefix(path, location_path)
    IN IF ~relative.some
       THEN UnableToExtractMaterializedPath(location_id, path)
       ELSE LET materialized_path == path_parent(relative.v)
            IN IF ~materialized_path.some THEN OkText(<<"/">>)
               ELSE LET materialized_path_str == Join(materialized_path.v, "/")
                    IN IF materialized_path_str # << >>
                       THEN OkText(<<"/">> \o materialized_path_str \o <<"/">>)
                       ELSE OkText(<<"/">>)

\* extract_normalized_materialized_path_str: the parent of the remainder,
\* framed by '/', "/" when the remainder has no parent or an empty one
extract_normalized_materialized_path_str(location_id, location_path, path) ==
    LET relative == strip_prefix(path, location_path)
    IN IF ~relative.some
       THEN UnableToExtractMaterializedPath(location_id, path)
       ELSE LET materialized_path == path_parent(relative.v)
            IN IF ~materialized_path.some THEN OkText(<<"/">>)
               ELSE LET materialized_path_str == Join(materialized_path.v, "/")
                    IN IF materialized_path_str # << >>
                       THEN OkText(<<"/">> \o replace(materialized_path_str, "\\", "/")
                                   \o <<"/">>)
                       ELSE OkText(<<"/">>)

\* assemble_relative_path
assemble_relative_path(materialized_path, name, extension, is_dir) ==
    IF ~is_dir /\ extension # << >>
    THEN Slice(materialized_path, 1, Len(materialized_path)) \o name \o <<".">> \o extension
    ELSE Slice(materialized_path, 1, Len(materialized_path)) \o name

(* --------------------------- the key and new --------------------------- *)

Key(location_id, materialized_path, is_dir, name, extension, relative_path) ==
    [location_id |-> location_id,
     materialized_path |-> materialized_path,
     is_dir |-> is_dir,
     name |-> name,
     extension |-> extension,
     relative_path |-> relative_path]

\* IsolatedFilePathData::prepare_name
prepare_name(path) == unwrap_or_default(file_stem(path))

\* IsolatedFilePathData::new
new(location_id, location_path, full_path, is_dir) ==
    LET extension ==
            IF ~is_dir
            THEN to_lowercase(unwrap_or_default(path_extension(full_path)))
            ELSE << >>
        materialized_path ==
            extract_normalized_materialized_path_str(location_id, location_path, full_path)
        name == IF location_path # full_path THEN prepare_name(full_path) ELSE << >>
        relative_path == extract_relative_path(location_id, location_path, full_path)
    IN IF materialized_path.status # "ok" THEN materialized_path
       ELSE IF relative_path.status # "ok" THEN relative_path
       ELSE Ok(Key(location_id, materialized_path.text, is_dir, name, extension,
                   relative_path.text))

\* IsolatedFilePathData::is_root
is_root(self) ==
    /\ self.is_dir
    /\ self.materialized_path = <<"/">>
    /\ self.name = << >>
    /\ self.relative_path = << >>

\* parent with a bug: no case for the root, whose materialized_path holds no
\* '/' before the trailing one
parent_without_root_case(self) ==
    LET mp == self.materialized_path
    IN IF Len(mp) = 0 THEN Panic
       ELSE LET trailing_slash_idx == Len(mp) - 1
                last_slash_idx == rfind(Slice(mp, 0, trailing_slash_idx), "/")
            IN IF last_slash_idx = -1 THEN Panic
               ELSE Ok(Key(self.location_id,
                           Slice(mp, 0, last_slash_idx + 1),
                           TRUE,
                           Slice(mp, last_slash_idx + 1, trailing_slash_idx),
                           << >>,
                           Slice(mp, 1, trailing_slash_idx)))

\* parent with a bug: the parent's materialized_path is cut at the trailing
\* '/', not at the one before it
parent_keeps_path(self) ==
    LET mp == self.materialized_path
    IN IF mp = <<"/">>
       THEN Ok(Key(self.location_id, <<"/">>, TRUE, << >>, << >>, << >>))
       ELSE IF Len(mp) = 0 THEN Panic
       ELSE LET trailing_slash_idx == Len(mp) - 1
                last_slash_idx == rfind(Slice(mp, 0, trailing_slash_idx), "/")
            IN IF last_slash_idx = -1 THEN Panic
               ELSE Ok(Key(self.location_id,
                           Slice(mp, 0, trailing_slash_idx + 1),
                           TRUE,
                           Slice(mp, last_slash_idx + 1, trailing_slash_idx),
                           << >>,
                           Slice(mp, 1, trailing_slash_idx)))

\* IsolatedFilePathData::parent; the subtraction of line 108 overflows on an
\* empty materialized_path and the expect of line 111 fails without a '/'
parent(self) ==
    LET mp == self.materialized_path
    IN IF mp = <<"/">>
       THEN Ok(Key(self.location_id, <<"/">>, TRUE, << >>, << >>, << >>))
       ELSE IF Len(mp) = 0 THEN Panic
       ELSE LET trailing_slash_idx == Len(mp) - 1
                last_slash_idx == rfind(Slice(mp, 0, trailing_slash_idx), "/")
            IN IF last_slash_idx = -1 THEN Panic
               ELSE Ok(Key(self.location_id,
                           Slice(mp, 0, last_slash_idx + 1),
                           TRUE,
                           Slice(mp, last_slash_idx + 1, trailing_slash_idx),
                           << >>,
                           Slice(mp, 1, trailing_slash_idx)))

(* ----------------------- splitting relative text ----------------------- *)

\* IsolatedFilePathData::separate_path_name_and_extension_from_str
separate_path_name_and_extension_from_str(source, is_dir) ==
    LET length == Len(source)
    IN IF length = 1
       THEN [panic |-> FALSE, materialized_path |-> source, name |-> None,
             extension |-> None]
       ELSE IF is_dir
       THEN LET last_char_idx == IF ends_with(source, "/") THEN length - 1 ELSE length
                found == rfind(Slice(source, 0, last_char_idx), "/")
                first_name_char_idx == (IF found = -1 THEN 0 ELSE found) + 1
            IN IF ~SliceOk(source, 0, first_name_char_idx)
                  \/ ~SliceOk(source, first_name_char_idx, last_char_idx)
               THEN [panic |-> TRUE]
               ELSE [panic |-> FALSE,
                     materialized_path |-> Slice(source, 0, first_name_char_idx),
                     name |-> Some(Slice(source, first_name_char_idx, last_char_idx)),
                     extension |-> None]
       ELSE LET found == rfind(source, "/")
                first_name_char_idx == (IF found = -1 THEN 0 ELSE found) + 1
                end_idx == first_name_char_idx - 1
            IN IF ~SliceOk(source, first_name_char_idx, length)
               THEN [panic |-> TRUE]
               ELSE LET last_dot_relative_idx ==
                            rfind(Slice(source, first_name_char_idx, length), ".")
                        last_dot_idx == first_name_char_idx + last_dot_relative_idx
                    IN IF last_dot_relative_idx # -1
                       THEN [panic |-> FALSE,
                             materialized_path |-> Slice(source, 0, end_idx),
                             name |-> Some(Slice(source, first_name_char_idx, last_dot_idx)),
                             extension |-> Some(Slice(source, last_dot_idx + 1, length))]
                       ELSE [panic |-> FALSE,
                             materialized_path |-> Slice(source, 0, end_idx),
                             name |-> Some(Slice(source, first_name_char_idx, length)),
                             extension |-> None]

\* IsolatedFilePathData::from_relative_str
from_relative_str(location_id, relative_file_path_str) ==
    LET is_dir == ends_with(relative_file_path_str, "/")
        parts == separate_path_name_and_extension_from_str(relative_file_path_str, is_dir)
    IN IF parts.panic THEN Panic
       ELSE Ok(Key(location_id,
                   parts.materialized_path,
                   is_dir,
                   unwrap_or_default(parts.name),
                   unwrap_or_default(parts.extension),
                   relative_file_path_str))

MAIN_SEPARATOR == "/"

InvalidFilenameAndExtension(source) ==
    [status |-> "err",
     error |-> [kind |-> "InvalidFilenameAndExtension", source |-> source]]

\* IsolatedFilePathData::separate_name_and_extension_from_str
separate_name_and_extension_from_str(source) ==
    IF \E i \in 1..Len(source) : source[i] = MAIN_SEPARATOR
    THEN InvalidFilenameAndExtension(source)
    ELSE LET last_dot_idx == rfind(source, ".")
         IN IF last_dot_idx = -1 THEN [status |-> "ok", name |-> source, extension |-> << >>]
            ELSE IF last_dot_idx = 0
            THEN [status |-> "ok", name |-> source, extension |-> << >>]
            ELSE [status |-> "ok",
                  name |-> Slice(source, 0, last_dot_idx),
                  extension |-> Slice(source, last_dot_idx + 1, Len(source))]

(* --------------------------- stored records ---------------------------- *)

\* IsolatedFilePathData::from_db_data
\* (the slice materialized_path[1..] of assemble_relative_path panics on an
\* empty materialized_path)
from_db_data(location_id, is_dir, materialized_path, name, extension) ==
    IF ~SliceOk(materialized_path, 1, Len(materialized_path)) THEN Panic
    ELSE Ok(Key(location_id, materialized_path, is_dir, name, extension,
                assemble_relative_path(materialized_path, name, extension, is_dir)))

MissingField(field) == [status |-> "err", error |-> [kind |-> "MissingField", field |-> field]]

\* util::db::maybe_missing: the value of a set field, MissingField otherwise
maybe_missing(data, field) ==
    IF data.some THEN [status |-> "ok", v |-> data.v] ELSE MissingField(field)

\* try_from with a bug: name is read before materialized_path
try_from_name_first(path) ==
    LET location_id == maybe_missing(path.location_id, "file_path.location_id")
        is_dir == maybe_missing(path.is_dir, "file_path.is_dir")
        materialized_path == maybe_missing(path.materialized_path, "file_path.materialized_path")
        name == maybe_missing(path.name, "file_path.name")
        extension == maybe_missing(path.extension, "file_path.extension")
    IN IF location_id.status # "ok" THEN location_id
       ELSE IF is_dir.status # "ok" THEN is_dir
       ELSE IF name.status # "ok" THEN name
       ELSE IF materialized_path.status # "ok" THEN materialized_path
       ELSE IF extension.status # "ok" THEN extension
       ELSE from_db_data(location_id.v, is_dir.v, materialized_path.v, name.v,
                         extension.v)

\* impl_from_db!: TryFrom<Data> and TryFrom<&Data>; each ? returns the first error
try_from(path) ==
    LET location_id == maybe_missing(path.location_id, "file_path.location_id")
        is_dir == maybe_missing(path.is_dir, "file_path.is_dir")
        materialized_path == maybe_missing(path.materialized_path, "file_path.materialized_path")
        name == maybe_missing(path.name, "file_path.name")
        extension == maybe_missing(path.extension, "file_path.extension")
    IN IF location_id.status # "ok" THEN location_id
       ELSE IF is_dir.status # "ok" THEN is_dir
       ELSE IF materialized_path.status # "ok" THEN materialized_path
       ELSE IF name.status # "ok" THEN name
       ELSE IF extension.status # "ok" THEN extension
       ELSE from_db_data(location_id.v, is_dir.v, materialized_path.v, name.v,
                         extension.v)

\* impl_from_db_without_location_id!: TryFrom<(location_id, Data)> and
\* TryFrom<(location_id, &Data)>
try_from_without_location_id(location_id, path) ==
    LET is_dir == maybe_missing(path.is_dir, "file_path.is_dir")
        materialized_path == maybe_missing(path.materialized_path, "file_path.materialized_path")
        name == maybe_missing(path.name, "file_path.name")
        extension == maybe_missing(path.extension, "file_path.extension")
    IN IF is_dir.status # "ok" THEN is_dir
       ELSE IF materialized_path.status # "ok" THEN materialized_path
       ELSE IF name.status # "ok" THEN name
       ELSE IF extension.status # "ok" THEN extension
       ELSE from_db_data(location_id, is_dir.v, materialized_path.v, name.v,
                         extension.v)

(* ------------------------------ equality ------------------------------- *)

\* == with a bug: relative_path is left out
eq_without_relative_path(a, b) ==
    /\ a.location_id = b.location_id
    /\ a.materialized_path = b.materialized_path
    /\ a.is_dir = b.is_dir
    /\ a.name = b.name
    /\ a.extension = b.extension

\* #[derive(Hash, Eq, PartialEq)]: field by field, over every field of the struct
eq(a, b) ==
    /\ a.location_id = b.location_id
    /\ a.materialized_path = b.materialized_path
    /\ a.is_dir = b.is_dir
    /\ a.name = b.name
    /\ a.extension = b.extension
    /\ a.relative_path = b.relative_path

\* What the derived Hash feeds the hasher, in field order
hash(a) ==
    <<a.location_id, a.materialized_path, a.is_dir, a.name, a.extension, a.relative_path>>

(* --------------------------- more inputs ------------------------------- *)

\* Texts handed to from_relative_str: the components joined by '/', with and
\* without a leading and a trailing '/'
RelStrs ==
    UNION { { Join(p, "/"), Join(p, "/") \o <<"/">>, <<"/">> \o Join(p, "/"),
              <<"/">> \o Join(p, "/") \o <<"/">> } : p \in Paths(MaxDepth) }

\* Stored materialized paths: framed by '/'
MatPaths ==
    { <<"/">> } \cup
    { <<"/">> \o Join(p, "/") \o <<"/">> : p \in Paths(MaxDepth - 1) \ { << >> } }

DbNames == { << >>, <<"a">>, <<"a", ".", "b">>, <<".", "a">> }
DbExts == { << >>, <<"b">>, <<"B">> }

\* A well-formed stored record: a framed materialized_path, no extension on a
\* directory, an empty name on the location root alone
WellFormed(is_dir, materialized_path, name, extension) ==
    /\ Len(materialized_path) >= 1
    /\ materialized_path[1] = "/"
    /\ materialized_path[Len(materialized_path)] = "/"
    /\ is_dir => extension = << >>
    /\ name = << >> => (is_dir /\ materialized_path = <<"/">>)

\* A field of a raw record: unset, or set to a value
OptionOf(S) == { None } \cup { Some(x) : x \in S }

RowMatPaths == { <<"/">>, <<"/", "a", "/">> }

\* Raw records of the shapes that hold location_id
Rows ==
    [location_id : OptionOf(LocationIds),
     is_dir : OptionOf(BOOLEAN),
     materialized_path : OptionOf(RowMatPaths),
     name : OptionOf(DbNames),
     extension : OptionOf(DbExts)]

\* Raw records of the shapes that do not
RowsWithoutLocationId ==
    [is_dir : OptionOf(BOOLEAN),
     materialized_path : OptionOf(RowMatPaths),
     name : OptionOf(DbNames),
     extension : OptionOf(DbExts)]

\* relative_path values of serialized keys
SerializedRelativePaths == { << >>, <<"a">> }

\* Names handed to separate_name_and_extension_from_str
BareNames == FileNames \cup { << >>, <<"a", "/", "b">>, <<"/">> }

(* ------------------------- FORBIDDEN_FILE_NAMES ------------------------ *)

Threads == 1..NThreads

\* The character U+0000
NUL == "NUL"

\* Names handed to accept_file_name
AcceptNames == { <<"a", ".", "b">>, <<"a", "/", "b">>, <<"a", NUL>> }

\* The patterns of the RegexSet of the build (not target_os = "windows")
ForbiddenPatterns == << "/|\\x00" >>

\* Regex::is_match of the pattern /|\x00
pattern_matches(pattern, name) ==
    pattern = "/|\\x00" /\ \E i \in 1..Len(name) : name[i] \in {"/", NUL}

\* RegexSet::is_match: some pattern of the set matches
is_match(reg, name) == \E n \in 1..Len(reg) : pattern_matches(reg[n], name)

\* OnceLock::new(): nothing stored, the Once incomplete
Uninitialized == [state |-> "incomplete", value |-> << >>, building |-> << >>, inits |-> 0]

IdleThread(calls) == [pc |-> "idle", name |-> << >>, reg |-> << >>, ret |-> FALSE,
                      calls |-> calls]

\* get_or_init with a bug: the cell is tested and then filled, with no state
\* for an initialisation under way
call_once_force_unsynchronised(state) ==
    IF state = "complete" THEN "done" ELSE "run"

\* get_or_init's Once::call_once_force: the one caller that finds the Once
\* incomplete runs the closure, a caller that finds it running waits, a caller
\* that finds it complete returns
call_once_force(state) ==
    CASE state = "incomplete" -> "run"
      [] state = "running" -> "wait"
      [] OTHER -> "done"

(* --------------------------- the state machine ------------------------- *)

NoReceiver == [some |-> FALSE]
NoDerived == [op |-> "none"]

\* Operations that return a key
KeyOps == {"new", "from_relative_str", "from_db_data", "try_from",
           "try_from_without_location_id"}

HasKey == call.op \in KeyOps /\ result.status = "ok"

Init ==
    /\ call = [op |-> "none"]
    /\ result = [status |-> "none"]
    /\ steps = 0
    /\ receiver = NoReceiver
    /\ derived = NoDerived
    /\ lock = Uninitialized
    /\ threads = [t \in Threads |-> IdleThread(0)]

\* The functions are pure: a behaviour is one call, then the methods applied
\* to the key it returned
Idle == call.op = "none"

Fresh ==
    /\ steps' = 0
    /\ receiver' = NoReceiver
    /\ derived' = NoDerived
    /\ UNCHANGED onceVars

New ==
    /\ Idle
    /\ \E location_id \in LocationIds, location_path \in Roots, full_path \in AbsPaths,
       is_dir \in BOOLEAN :
        /\ call' = [op |-> "new", location_id |-> location_id,
                    location_path |-> location_path, full_path |-> full_path,
                    is_dir |-> is_dir]
        /\ result' = new(location_id, location_path, full_path, is_dir)
        /\ Fresh

ExtractNormalizedMaterializedPathStr ==
    /\ Idle
    /\ \E location_id \in LocationIds, location_path \in Roots, path \in AbsPaths :
        /\ call' = [op |-> "extract_normalized_materialized_path_str",
                    location_id |-> location_id, location_path |-> location_path,
                    full_path |-> path]
        /\ result' = extract_normalized_materialized_path_str(location_id, location_path,
                                                              path)
        /\ Fresh

FromRelativeStr ==
    /\ Idle
    /\ \E location_id \in LocationIds, relative_file_path_str \in RelStrs :
        /\ call' = [op |-> "from_relative_str", location_id |-> location_id,
                    str |-> relative_file_path_str]
        /\ result' = from_relative_str(location_id, relative_file_path_str)
        /\ Fresh

FromDbData ==
    /\ Idle
    /\ \E location_id \in LocationIds, is_dir \in BOOLEAN, materialized_path \in MatPaths,
       name \in DbNames, extension \in DbExts :
        /\ WellFormed(is_dir, materialized_path, name, extension)
        /\ call' = [op |-> "from_db_data", location_id |-> location_id,
                    is_dir |-> is_dir, materialized_path |-> materialized_path,
                    name |-> name, extension |-> extension]
        /\ result' = from_db_data(location_id, is_dir, materialized_path, name, extension)
        /\ Fresh

TryFrom ==
    /\ Idle
    /\ \E path \in Rows, owned \in BOOLEAN :
        /\ call' = [op |-> "try_from", path |-> path, owned |-> owned]
        /\ result' = try_from(path)
        /\ Fresh

TryFromWithoutLocationId ==
    /\ Idle
    /\ \E location_id \in LocationIds, path \in RowsWithoutLocationId, owned \in BOOLEAN :
        /\ call' = [op |-> "try_from_without_location_id", location_id |-> location_id,
                    path |-> path, owned |-> owned]
        /\ result' = try_from_without_location_id(location_id, path)
        /\ Fresh

SeparateNameAndExtensionFromStr ==
    /\ Idle
    /\ \E source \in BareNames :
        /\ call' = [op |-> "separate_name_and_extension_from_str", source |-> source]
        /\ result' = separate_name_and_extension_from_str(source)
        /\ Fresh

\* key.parent(), the result taking the place of the key
Parent ==
    /\ HasKey
    /\ steps < MaxParents
    /\ receiver' = [some |-> TRUE, key |-> result.key]
    /\ result' = parent(result.key)
    /\ steps' = steps + 1
    /\ derived' = NoDerived
    /\ UNCHANGED call
    /\ UNCHANGED onceVars

\* #[derive(Deserialize)]: a key read from serialized data holds whatever the
\* data gives each field
deserialize(location_id, materialized_path, is_dir, name, extension, relative_path) ==
    Ok(Key(location_id, materialized_path, is_dir, name, extension, relative_path))

\* key == other and the two hashes, other being the key read back from the
\* record stored for key ("stored"), key.parent() ("parent"), or a key
\* deserialized from data that differs from key's in relative_path at most
\* ("deserialized")
Compare ==
    /\ HasKey
    /\ \E kind \in {"stored", "parent", "deserialized"},
          relative_path \in SerializedRelativePaths \cup {result.key.relative_path} :
        LET self == result.key
            other == CASE kind = "stored" ->
                            from_db_data(self.location_id, self.is_dir,
                                         self.materialized_path, self.name, self.extension)
                       [] kind = "parent" -> parent(self)
                       [] OTHER ->
                            deserialize(self.location_id, self.materialized_path,
                                        self.is_dir, self.name, self.extension,
                                        relative_path)
        IN /\ other.status = "ok"
           /\ derived' = [op |-> kind, other |-> other.key, eq |-> eq(self, other.key),
                          same_hash |-> hash(self) = hash(other.key)]
    /\ UNCHANGED <<call, result, steps, receiver>>
    /\ UNCHANGED onceVars

\* from_relative_str of the key's own relative_path
Reparse ==
    /\ HasKey
    /\ derived' = [op |-> "reparse",
                   other |-> from_relative_str(result.key.location_id,
                                               result.key.relative_path)]
    /\ UNCHANGED <<call, result, steps, receiver>>
    /\ UNCHANGED onceVars

Next ==
    \/ New
    \/ ExtractNormalizedMaterializedPathStr
    \/ FromRelativeStr
    \/ FromDbData
    \/ TryFrom
    \/ TryFromWithoutLocationId
    \/ SeparateNameAndExtensionFromStr
    \/ Parent
    \/ Compare
    \/ Reparse

Spec == Init /\ [][Next]_vars

(* ------------------- accept_file_name, thread by thread ---------------- *)

Goto(t, pc) == threads' = [threads EXCEPT ![t].pc = pc]

\* A thread enters accept_file_name(name)
AcceptFileName(t) ==
    /\ threads[t].pc = "idle"
    /\ threads[t].calls < MaxCalls
    /\ \E name \in AcceptNames :
            threads' = [threads EXCEPT ![t].pc = "get", ![t].name = name]
    /\ UNCHANGED lock
    /\ UNCHANGED keyVars

\* get_or_init, the fast path: the value when the Once is complete
Get(t) ==
    /\ threads[t].pc = "get"
    /\ IF lock.state = "complete"
       THEN threads' = [threads EXCEPT ![t].pc = "is_match", ![t].reg = lock.value]
       ELSE Goto(t, "call_once")
    /\ UNCHANGED lock
    /\ UNCHANGED keyVars

\* get_or_init, the slow path: run the closure, or wait (the action is not
\* enabled while another thread runs it), or find the Once complete
CallOnce(t) ==
    /\ threads[t].pc = "call_once"
    /\ LET branch == call_once_force(lock.state)
       IN \/ /\ branch = "run"
             /\ lock' = [lock EXCEPT !.state = "running", !.building = << >>,
                                      !.inits = lock.inits + 1]
             /\ Goto(t, "compile")
          \/ /\ branch = "done"
             /\ UNCHANGED lock
             /\ Goto(t, "get_unchecked")
    /\ UNCHANGED keyVars

\* The closure: RegexSet::new compiles the patterns one by one
Compile(t) ==
    /\ threads[t].pc = "compile"
    /\ IF Len(lock.building) < Len(ForbiddenPatterns)
       THEN /\ lock' = [lock EXCEPT !.building =
                            Append(lock.building,
                                   ForbiddenPatterns[Len(lock.building) + 1])]
            /\ UNCHANGED threads
       ELSE /\ lock' = [lock EXCEPT !.value = lock.building, !.state = "complete"]
            /\ Goto(t, "get_unchecked")
    /\ UNCHANGED keyVars

\* get_or_init returns the reference to the stored value
GetUnchecked(t) ==
    /\ threads[t].pc = "get_unchecked"
    /\ threads' = [threads EXCEPT ![t].pc = "is_match", ![t].reg = lock.value]
    /\ UNCHANGED lock
    /\ UNCHANGED keyVars

\* !reg.is_match(name)
IsMatch(t) ==
    /\ threads[t].pc = "is_match"
    /\ threads' = [threads EXCEPT ![t].pc = "returned",
                                  ![t].ret = ~is_match(threads[t].reg, threads[t].name)]
    /\ UNCHANGED lock
    /\ UNCHANGED keyVars

\* The caller takes the answer
Return(t) ==
    /\ threads[t].pc = "returned"
    /\ threads' = [threads EXCEPT ![t] = IdleThread(threads[t].calls + 1)]
    /\ UNCHANGED lock
    /\ UNCHANGED keyVars

NextOnce ==
    \/ \E t \in Threads : AcceptFileName(t)
    \/ \E t \in Threads : Get(t)
    \/ \E t \in Threads : CallOnce(t)
    \/ \E t \in Threads : Compile(t)
    \/ \E t \in Threads : GetUnchecked(t)
    \/ \E t \in Threads : IsMatch(t)
    \/ \E t \in Threads : Return(t)

SpecOnce == Init /\ [][NextOnce]_vars

(* ------------------------------ claims --------------------------------- *)

location_path == call.location_path
full_path == call.full_path
StrictlyInside(p, base) == IsPrefix(base, p) /\ Len(p) > Len(base)
parent_dir(p) == SubSeq(p, 1, Len(p) - 1)

\* C1: for a path P strictly inside the root R and either is_dir,
\* new(L,R,P,is_dir).parent() equals new(L,R,parent_dir(P),true) in every field.
C1_ParentEqualsNewOfParentDir ==
    (call.op = "new" /\ steps = 1 /\ StrictlyInside(full_path, location_path))
        => result = new(call.location_id, location_path, parent_dir(full_path), TRUE)

\* C2: from_relative_str(L, k.relative_path) of a key k = from_db_data(L, d, mp,
\* n, ext) built from a well-formed record gives back mp, n, ext and d.
C2_RoundTrip ==
    (call.op = "from_db_data" /\ steps = 0 /\ derived.op = "reparse")
        => /\ derived.other.status = "ok"
           /\ derived.other.key.materialized_path = call.materialized_path
           /\ derived.other.key.name = call.name
           /\ derived.other.key.extension = call.extension
           /\ derived.other.key.is_dir = call.is_dir

Framed(mp) == Len(mp) >= 1 /\ mp[1] = "/" /\ mp[Len(mp)] = "/"

\* C3: every key of new, from_relative_str and from_db_data on a well-formed
\* record, and of parent() applied to it any number of times, has a
\* materialized_path that begins and ends with '/'.
C3_MaterializedPathFramed ==
    (call.op \in {"new", "from_relative_str", "from_db_data"} /\ result.status = "ok")
        => Framed(result.key.materialized_path)

Recomputed(k) ==
    IF ~k.is_dir /\ k.extension # << >>
    THEN SubSeq(k.materialized_path, 2, Len(k.materialized_path)) \o k.name \o <<".">>
            \o k.extension
    ELSE SubSeq(k.materialized_path, 2, Len(k.materialized_path)) \o k.name

\* C4: the relative_path of every key of new, from_relative_str, from_db_data
\* and parent is the value recomputed from its other fields.
C4_RelativePathRecomputed ==
    (call.op \in {"new", "from_relative_str", "from_db_data"} /\ result.status = "ok")
        => result.key.relative_path = Recomputed(result.key)

SameFive(a, b) ==
    /\ a.location_id = b.location_id
    /\ a.materialized_path = b.materialized_path
    /\ a.is_dir = b.is_dir
    /\ a.name = b.name
    /\ a.extension = b.extension

Compared == derived.op \in {"stored", "parent", "deserialized"}

\* C5, as claimed: two keys with the same location_id, materialized_path,
\* is_dir, name and extension compare equal and hash alike, whatever their
\* relative_path.
C5_EqIgnoresRelativePath ==
    (Compared /\ SameFive(result.key, derived.other))
        => derived.eq /\ derived.same_hash

\* C5, amended: equality and hashing cover every field, relative_path
\* included: two keys compare equal (and feed the hasher the same) exactly
\* when the five other fields and relative_path are all the same, so two keys
\* that differ only in relative_path compare unequal.
C5_EqCoversRelativePath ==
    Compared
        => /\ derived.eq <=> (SameFive(result.key, derived.other)
                              /\ result.key.relative_path = derived.other.relative_path)
           /\ derived.same_hash <=> derived.eq

C5_Witness ==
    /\ derived.op = "deserialized"
    /\ SameFive(result.key, derived.other)
    /\ result.key.relative_path # derived.other.relative_path
    /\ ~derived.eq

NoUpper(s) == \A i \in 1..Len(s) : s[i] \notin Upper

\* C6: the extension of every key of new and from_relative_str, and the
\* extension separate_name_and_extension_from_str returns, has no upper-case
\* character.
C6_ExtensionLowercase ==
    /\ (call.op \in {"new", "from_relative_str"} /\ steps = 0 /\ result.status = "ok")
            => NoUpper(result.key.extension)
    /\ (call.op = "separate_name_and_extension_from_str" /\ result.status = "ok")
            => NoUpper(result.extension)

WithSlashes(s) == [i \in 1..Len(s) |-> IF s[i] = "\\" THEN "/" ELSE s[i]]
Segments == SubSeq(full_path, Len(location_path) + 1, Len(full_path))
ExpectedMaterializedPath(segs) ==
    IF Len(segs) <= 1 THEN <<"/">>
    ELSE WithSlashes(<<"/">> \o Join(SubSeq(segs, 1, Len(segs) - 1), "/") \o <<"/">>)

\* C7: for P = R followed by the segments s1..sn, new succeeds with
\* materialized_path "/" when n <= 1 and "/s1/.../s(n-1)/" otherwise and with
\* relative_path s1/.../sn, every backslash replaced by '/', and
\* extract_normalized_materialized_path_str returns that materialized_path.
C7_NewOfSegments ==
    /\ (call.op = "new" /\ steps = 0 /\ IsPrefix(location_path, full_path))
            => /\ result.status = "ok"
               /\ result.key.materialized_path = ExpectedMaterializedPath(Segments)
               /\ result.key.relative_path = WithSlashes(Join(Segments, "/"))
    /\ (call.op = "extract_normalized_materialized_path_str"
        /\ IsPrefix(location_path, full_path))
            => result = OkText(ExpectedMaterializedPath(Segments))

C7_Witness ==
    /\ call.op = "new"
    /\ steps = 0
    /\ IsPrefix(location_path, full_path)
    /\ Len(Segments) >= 2
    /\ \E n \in 1..(Len(Segments) - 1) :
            \E i \in 1..Len(Segments[n]) : Segments[n][i] = "\\"
    /\ result.status = "ok"
    /\ result.key.materialized_path = ExpectedMaterializedPath(Segments)

RootKey(location_id) == Key(location_id, <<"/">>, TRUE, << >>, << >>, << >>)

\* C8: parent() of the root key is the root key, in every field, however many
\* times it is applied.
C8_ParentOfRootIsRoot ==
    (steps >= 1 /\ receiver.key = RootKey(receiver.key.location_id))
        => result = Ok(receiver.key)

C8_Witness ==
    /\ steps >= 2
    /\ receiver.key = RootKey(receiver.key.location_id)
    /\ result = Ok(receiver.key)

\* C9: new(L, R, P, is_dir) returns UnableToExtractMaterializedPath carrying L
\* and P, and no key, whenever R does not prefix P component-wise.
C9_NewOutsideRootFails ==
    (call.op = "new" /\ ~IsPrefix(location_path, full_path))
        => /\ result = UnableToExtractMaterializedPath(call.location_id, full_path)
           /\ result.status # "ok"

C9_Witness ==
    /\ call.op = "new"
    /\ location_path = << <<"s">>, <<"l">> >>
    /\ full_path = << <<"s">>, <<"l", "a">> >>
    /\ result.status = "err"
    /\ result.error.location_id = call.location_id
    /\ result.error.path = full_path

FieldOrder == <<"is_dir", "materialized_path", "name", "extension">>
FieldLabel ==
    [location_id |-> "file_path.location_id",
     is_dir |-> "file_path.is_dir",
     materialized_path |-> "file_path.materialized_path",
     name |-> "file_path.name",
     extension |-> "file_path.extension"]
Unset(path, order) == {i \in 1..Len(order) : ~path[order[i]].some}
FirstUnset(path, order) ==
    order[CHOOSE i \in Unset(path, order) : \A j \in Unset(path, order) : i <= j]
Expected(path, order, location_id) ==
    IF Unset(path, order) # {}
    THEN MissingField(FieldLabel[FirstUnset(path, order)])
    ELSE from_db_data(location_id, path.is_dir.v, path.materialized_path.v, path.name.v,
                      path.extension.v)

\* C10: converting a raw record fails with MissingField naming the first unset
\* field in the order location_id (when the shape has it), is_dir,
\* materialized_path, name, extension; with every field set it is from_db_data
\* of the field values.
C10_TryFromFirstMissingField ==
    /\ (call.op = "try_from" /\ steps = 0)
            => result = Expected(call.path, <<"location_id">> \o FieldOrder,
                                 call.path.location_id.v)
    /\ (call.op = "try_from_without_location_id" /\ steps = 0)
            => result = Expected(call.path, FieldOrder, call.location_id)

C10_Witness ==
    /\ call.op = "try_from"
    /\ call.path.location_id.some
    /\ call.path.is_dir.some
    /\ ~call.path.materialized_path.some
    /\ ~call.path.extension.some
    /\ result = MissingField("file_path.materialized_path")

\* C11: under any interleaving of calls of accept_file_name the pattern set is
\* initialised at most once, and a caller matches a name only against the
\* completed set: it holds the whole set, read when the OnceLock was complete,
\* and a thread in the slow path goes on only once no initialisation runs.
C11_InitOnceAndComplete ==
    /\ lock.inits <= 1
    /\ \A t \in Threads :
        /\ threads[t].pc \in {"get_unchecked", "is_match"} => lock.state = "complete"
        /\ threads[t].pc = "is_match" => threads[t].reg = ForbiddenPatterns
        /\ threads[t].pc = "returned" =>
                threads[t].ret = (\A i \in 1..Len(threads[t].name) :
                                    threads[t].name[i] \notin {"/", NUL})
    /\ lock.state = "complete" => lock.value = ForbiddenPatterns
    /\ Cardinality({t \in Threads : threads[t].pc = "compile"}) <= 1

\* Two first callers: one has initialised and matches, the other was in the
\* slow path meanwhile and now holds the completed set
C11_Witness ==
    /\ lock.inits = 1
    /\ \E t, u \in Threads :
        /\ t # u
        /\ threads[t].pc = "returned"
        /\ threads[u].pc = "is_match"
        /\ threads[u].calls = 0
        /\ threads[u].reg = ForbiddenPatterns

\* Directory segments of a framed materialized_path: "/" has none
DirSegments(mp) == Cardinality({i \in 1..Len(mp) : mp[i] = "/"}) - 1
ConstructedKey == new(call.location_id, location_path, full_path, call.is_dir).key

\* C12: from a key of new whose materialized_path has k directory segments,
\* parent() never panics, each parent() of a key whose materialized_path is
\* not "/" has a strictly shorter materialized_path with one segment fewer,
\* and from k + 1 applications on the key is the root (is_root()).
C12_ParentChainReachesRoot ==
    (call.op = "new" /\ steps >= 1)
        => /\ result.status = "ok"
           /\ receiver.key.materialized_path # <<"/">>
                => /\ Len(result.key.materialized_path)
                        < Len(receiver.key.materialized_path)
                   /\ DirSegments(result.key.materialized_path)
                        = DirSegments(receiver.key.materialized_path) - 1
           /\ steps >= DirSegments(ConstructedKey.materialized_path) + 1
                => is_root(result.key)

C12_Witness ==
    /\ call.op = "new"
    /\ steps = 4
    /\ DirSegments(ConstructedKey.materialized_path) = 3
    /\ ~is_root(receiver.key)
    /\ receiver.key.materialized_path = <<"/">>
    /\ result.status = "ok"
    /\ is_root(result.key)

====
